---- MODULE Spec2Model ----
(***************************************************************************)
(* A model of the lyric-video generator's image-sequence controller:       *)
(*   - ImageDirector.generate_all_images / generate_character_designs      *)
(*     (src/agents/image_director.py), specification Spec;                 *)
(*   - ReferenceSelector.select_references                                 *)
(*     (src/agents/reference_selector.py), specification SpecSelect;       *)
(*   - ClaudeClient._extract_json (src/utils/claude_client.py),            *)
(*     specification SpecExtract;                                          *)
(*   - StylePlanner.create_style_guide (src/agents/style_planner.py),      *)
(*     specification SpecStyle;                                            *)
(*   - the per-line frame filename (image_director.py line 173),           *)
(*     specification SpecFilename;                                         *)
(*   - SeedreamClient.generate_image (src/utils/seedream_client.py),       *)
(*     specification SpecSeedream;                                         *)
(*   - SupabaseClient.download_audio_file (src/utils/supabase_client.py),  *)
(*     specification SpecAudio;                                            *)
(*   - generate_lyric_video (src/main.py) with DriveUploader.upload_video, *)
(*     specification SpecVideo;                                            *)
(*   - process_all_songs (src/main2.py), specification SpecBatch.          *)
(* The external services (language service, image service, downloads) are  *)
(* the environment: their behaviour in a run is an input chosen in Init.   *)
(***************************************************************************)
EXTENDS Integers, Sequences, FiniteSets, TLC

VARIABLES
    \* ---- ImageDirector (Spec) ----
    target_lyrics,      \* the LyricLine list handed to generate_all_images
    custom_input,       \* CustomCreativeInput (present = FALSE: None)
    fault,              \* the first external call that fails in this run
    pc,                 \* position of the run inside generate_all_images
    role,               \* index of the character role being designed
    idx,                \* enumerate() index of the loop over target_lyrics
    generated_images,   \* local list generated_images
    previous_prompts,   \* local list previous_prompts (the prompt history)
    character_refs,     \* paths returned by generate_character_designs
    character_prompts,  \* prompts returned by generate_character_designs
    log,                \* content of the generation log file
    disk,               \* files present in the song's frames directory
    calls,              \* external requests issued so far, in order
    exception,          \* exception leaving generate_all_images ("" = none)
    result,             \* list returned by generate_all_images
    \* ---- ReferenceSelector (SpecSelect) ----
    sel_in, sel_out,
    \* ---- ClaudeClient._extract_json (SpecExtract) ----
    ex_in, ex_out,
    \* ---- StylePlanner (SpecStyle) ----
    st_in, st_out,
    \* ---- the per-line frame filename (SpecFilename) ----
    fn_in, fn_out,
    \* ---- SeedreamClient.generate_image (SpecSeedream) ----
    sd_in, sd_out,
    \* ---- generate_lyric_video (SpecVideo) ----
    vd_in, vd_out,
    \* ---- SupabaseClient.download_audio_file (SpecAudio) ----
    au_in, au_st,
    \* ---- process_all_songs (SpecBatch) ----
    ba_in, ba_st

dirVars == <<target_lyrics, custom_input, fault, pc, role, idx, generated_images,
             previous_prompts, character_refs, character_prompts, log, disk,
             calls, exception, result>>
selVars == <<sel_in, sel_out>>
exVars  == <<ex_in, ex_out>>
stVars  == <<st_in, st_out>>
fnVars  == <<fn_in, fn_out>>
sdVars  == <<sd_in, sd_out>>
vdVars  == <<vd_in, vd_out>>
auVars  == <<au_in, au_st>>
baVars  == <<ba_in, ba_st>>
vars    == <<dirVars, selVars, exVars, stVars, fnVars, sdVars, vdVars, auVars, baVars>>

(***************************************************************************)
(* Bounds of the model.                                                    *)
(***************************************************************************)
\* line numbers of the song run from 1 to MaxLines
MaxLines == 3

(***************************************************************************)
(* Small helpers.                                                          *)
(***************************************************************************)
Range(s) == {s[i] : i \in 1..Len(s)}

Min(a, b) == IF a <= b THEN a ELSE b

\* Python truthiness of an Optional[str]: None and "" are falsy.
Truthy(x) == x \notin {"None", ""}

\* The increasing enumeration of a finite set of integers.
RECURSIVE SortedSeq(_)
SortedSeq(S) ==
    IF S = {} THEN <<>>
    ELSE LET m == CHOOSE x \in S : \A y \in S : x <= y
         IN <<m>> \o SortedSeq(S \ {m})

(***************************************************************************)
(* Data model (src/models/data_models.py).                                 *)
(***************************************************************************)
\* A LyricLine row of the metadata store; its times are data of the row.
LyricLine(n) ==
    [line_number |-> n, start_time_seconds |-> 3 * n, end_time_seconds |-> 3 * n + 2]

NoCustomInput ==
    [present |-> FALSE, story_description |-> "None",
     character_male_description |-> "None",
     character_female_description |-> "None", is_conversation |-> "None"]

CustomCreativeInput(story, male, female, conv) ==
    [present |-> TRUE, story_description |-> story,
     character_male_description |-> male,
     character_female_description |-> female, is_conversation |-> conv]

GeneratedImage(line_number, image_path, prompt_used, start_time, end_time, refs) ==
    [line_number |-> line_number, image_path |-> image_path,
     prompt_used |-> prompt_used, start_time |-> start_time,
     end_time |-> end_time, used_reference |-> TRUE, reference_image |-> refs]

(***************************************************************************)
(* DataRetriever.fetch_all_data: the target range handed to the director.  *)
(***************************************************************************)
\* SupabaseClient.get_lyrics: rows ordered by line_number, filtered by range.
get_lyrics(db, start_line, end_line) ==
    LET keep == IF end_line # 0
                THEN {n \in db : n >= start_line /\ n <= end_line}
                ELSE {n \in db : n >= start_line}
        order == SortedSeq(keep)
    IN [i \in 1..Len(order) |-> LyricLine(order[i])]

\* end_line = request.end_line or max(line numbers); 0 stands for None.
fetch_all_data(db, start_line, end_line) ==
    LET last == CHOOSE m \in db : \A y \in db : y <= m
        e == IF end_line # 0 THEN end_line ELSE last
    IN get_lyrics(db, start_line, e)

(***************************************************************************)
(* The environment: which external call fails first.                       *)
(***************************************************************************)
\* the female character is designed first
Roles_FemaleFirst == <<"female", "male">>

\* generate_character_designs: the male character, then the female character
Roles == <<"male", "female">>

SeedreamFaults == {"request_error", "malformed", "download_error"}

NoFault == [site |-> "none", at |-> 0, kind |-> "none"]

\* What the language service can do to a line's prompt request other than
\* answer in full: fail, answer with text that holds no JSON object, or answer
\* with an object that lacks seedream_prompt, creative_reasoning or
\* use_previous_as_reference.
ClaudeLineAnswers ==
    {"api_error", "unparseable", "no_prompt", "no_reasoning", "no_reference_flag"}

\* A run of the director ends at its first failing call (nothing is retried or
\* caught and continued), so the first failure decides the whole run.
\* at: the role index (character sites) or the position in the target range.
Faults ==
    {NoFault}
    \cup [site : {"claude_character"}, at : 1..Len(Roles), kind : {"api_error"}]
    \cup [site : {"seedream_character"}, at : 1..Len(Roles), kind : SeedreamFaults]
    \cup [site : {"claude_line"}, at : 1..MaxLines, kind : ClaudeLineAnswers]
    \cup [site : {"seedream_line"}, at : 1..MaxLines, kind : SeedreamFaults]

FaultAt(site, at) == fault.site = site /\ fault.at = at

(***************************************************************************)
(* Names of files and texts of prompts.                                    *)
(***************************************************************************)
CharacterFile(r) == "character_" \o r \o ".jpg"

\* the minimum width of the format specification 03d
PadWidth == 3

\* the decimal digits of a natural number, most significant first
RECURSIVE Digits(_)
Digits(n) == IF n < 10 THEN <<n>> ELSE Append(Digits(n \div 10), n % 10)

\* no padding at all
ZeroPad_None(d, width) == d

\* zero fill on the left up to the minimum width; longer numbers are kept whole
RECURSIVE ZeroPad(_, _)
ZeroPad(d, width) == IF Len(d) >= width THEN d ELSE ZeroPad(<<0>> \o d, width)

\* format(line_number, "03d"), as digits
Format03d(n) == ZeroPad(Digits(n), PadWidth)

RECURSIVE DigitsText(_)
DigitsText(d) == IF d = <<>> THEN "" ELSE ToString(Head(d)) \o DigitsText(Tail(d))

\* image_filename = f"line_{lyric.line_number:03d}.jpg"
LineFile(n) == "line_" \o DigitsText(Format03d(n)) \o ".jpg"

\* the same filename as the code points of its characters:
\* "line_" is 108 105 110 101 95, a digit d is 48 + d, ".jpg" is 46 106 112 103
image_filename(n) ==
    LET d == Format03d(n)
    IN <<108, 105, 110, 101, 95>> \o [i \in 1..Len(d) |-> 48 + d[i]]
       \o <<46, 106, 112, 103>>

AutoCharacterPrompt(r) == "portrait of a " \o r \o " character"

ScenePrompt(n) == "scene for line " \o ToString(n)

(***************************************************************************)
(* GenerationLogger (src/utils/generation_logger.py): entries of the log.  *)
(***************************************************************************)
LogEntry(kind, line, status) == [kind |-> kind, line |-> line, status |-> status]

\* log_generation_result: "Status: SUCCESS" or "Status: FAILED"
log_generation_result(success) ==
    LogEntry("result", 0, IF success THEN "SUCCESS" ELSE "FAILED")

log_line_start(line_number) == LogEntry("line_start", line_number, "")

(***************************************************************************)
(* Python's binding of a call's arguments to a method's parameters (after  *)
(* self): the call raises TypeError when there are more positional         *)
(* arguments than parameters, when a keyword names no parameter or one     *)
(* already bound positionally, or when a parameter without default is left *)
(* unbound.                                                                *)
(***************************************************************************)
CallBinds(params, npos, keywords) ==
    /\ npos <= Len(params)
    /\ \A k \in keywords : \E j \in (npos + 1)..Len(params) : params[j] = k
    /\ \A j \in (npos + 1)..Len(params) : params[j] \in keywords

\* def generate_first_prompt(self, lyric_line, style_guide)
generate_first_prompt_params == <<"lyric_line", "style_guide">>

\* def generate_next_prompt(self, previous_prompts, current_lyric, style_guide,
\*                          line_number, total_lines)
generate_next_prompt_params ==
    <<"previous_prompts", "current_lyric", "style_guide", "line_number", "total_lines">>

\* the values generate_all_images passes positionally to generate_first_prompt
FirstPromptArguments == <<"lyric", "style_guide", "character_design_prompts">>

\* the values generate_all_images passes positionally to generate_next_prompt
NextPromptArguments ==
    <<"previous_prompts", "lyric", "style_guide", "character_design_prompts">>

\* ... and the keywords it adds to the generate_next_prompt call
NextPromptKeywords == {"line_number", "total_lines"}

\* the first-line test off by one
IsFirstLine_OffByOne(i) == i = 1

\* if idx == 0: the first-line branch
IsFirstLine(i) == i = 0

(***************************************************************************)
(* SeedreamClient.generate_image: the references attached to the request.  *)
(***************************************************************************)
MaxReferences == 10

RECURSIVE ExistingPaths(_, _)
ExistingPaths(paths, files) ==
    IF paths = <<>> THEN <<>>
    ELSE (IF Head(paths) \in files THEN <<Head(paths)>> ELSE <<>>)
         \o ExistingPaths(Tail(paths), files)

\* the list of existing paths is not cut
AttachedReferences_NoLimit(paths, files) == ExistingPaths(paths, files)

\* valid_paths = [p for p in reference_image_paths if p.exists()][:10]
AttachedReferences(paths, files) ==
    LET valid == ExistingPaths(paths, files)
    IN SubSeq(valid, 1, Min(MaxReferences, Len(valid)))

\* the exception a failing image-service step raises
SeedreamException(kind) ==
    CASE kind = "request_error"  -> "RequestException(post)"
      [] kind = "malformed"      -> "KeyError"
      [] kind = "download_error" -> "RequestException(get)"

\* the exception a failing language-service step raises
ClaudeException(kind) ==
    CASE kind = "api_error"   -> "APIError"
      [] kind = "unparseable" -> "ValueError"
      [] kind \in {"no_prompt", "no_reasoning"} -> "KeyError"

\* Lines 155-156: prompt = decision['seedream_prompt'] and
\* reasoning = decision['creative_reasoning']; use_previous_as_reference is
\* never read.
DecisionReadFails(kind) == kind \in {"no_prompt", "no_reasoning"}

\* one call of the director to one of its clients
Call(service, site, at, args, history, refs, outcome) ==
    [service |-> service, site |-> site, at |-> at, args |-> args,
     history |-> history, refs |-> refs, outcome |-> outcome]

(***************************************************************************)
(* ImageDirector.generate_all_images, lines 91-113: the locals, the logger *)
(* (the log file is truncated), the style guide and the custom input.      *)
(***************************************************************************)
\* the loop is entered without character design
Begin_SkipsCharacterDesign ==
    /\ pc = "start"
    /\ generated_images' = <<>>
    /\ previous_prompts' = <<>>
    /\ log' = <<LogEntry("header", 0, ""), LogEntry("style_guide", 0, "")>>
              \o (IF custom_input.present
                  THEN <<LogEntry("custom_input", 0, "")>> ELSE <<>>)
    /\ role' = 1
    /\ pc' = "loop"
    /\ UNCHANGED <<target_lyrics, custom_input, fault, idx, character_refs,
                   character_prompts, disk, calls, exception, result>>
    /\ UNCHANGED <<selVars, exVars, stVars, fnVars, sdVars, vdVars, auVars,
                   baVars>>

\* the history starts with an entry that belongs to no line
Begin_SeedsHistory ==
    /\ pc = "start"
    /\ generated_images' = <<>>
    /\ previous_prompts' = <<"style guide">>
    /\ log' = <<LogEntry("header", 0, ""), LogEntry("style_guide", 0, "")>>
              \o (IF custom_input.present
                  THEN <<LogEntry("custom_input", 0, "")>> ELSE <<>>)
    /\ role' = 1
    /\ pc' = "character_prompt"
    /\ UNCHANGED <<target_lyrics, custom_input, fault, idx, character_refs,
                   character_prompts, disk, calls, exception, result>>
    /\ UNCHANGED <<selVars, exVars, stVars, fnVars, sdVars, vdVars, auVars,
                   baVars>>

Begin ==
    /\ pc = "start"
    /\ generated_images' = <<>>
    /\ previous_prompts' = <<>>
    /\ log' = <<LogEntry("header", 0, ""), LogEntry("style_guide", 0, "")>>
              \o (IF custom_input.present
                  THEN <<LogEntry("custom_input", 0, "")>> ELSE <<>>)
    /\ role' = 1
    /\ pc' = "character_prompt"
    /\ UNCHANGED <<target_lyrics, custom_input, fault, idx, character_refs,
                   character_prompts, disk, calls, exception, result>>
    /\ UNCHANGED <<selVars, exVars, stVars, fnVars, sdVars, vdVars, auVars,
                   baVars>>

(***************************************************************************)
(* ImageDirector.generate_character_designs, per role: the prompt (custom  *)
(* description or language service), the image request, the download.      *)
(***************************************************************************)
RoleDescription(ci, r) ==
    IF r = "male" THEN ci.character_male_description
    ELSE ci.character_female_description

\* if custom_input and custom_input.character_<role>_description
UsesCustomDescription(ci, r) == ci.present /\ Truthy(RoleDescription(ci, r))

CharacterPrompt ==
    /\ pc = "character_prompt"
    /\ LET r == Roles[role]
       IN IF UsesCustomDescription(custom_input, r)
          THEN /\ character_prompts' =
                      Append(character_prompts, RoleDescription(custom_input, r))
               /\ pc' = "character_image"
               /\ UNCHANGED <<calls, exception>>
          ELSE IF FaultAt("claude_character", role)
          THEN /\ calls' = Append(calls, Call("claude", "character", role,
                      <<"style_guide", "gender">>, <<>>, <<>>,
                      ClaudeException(fault.kind)))
               /\ exception' = ClaudeException(fault.kind)
               /\ pc' = "raised"
               /\ UNCHANGED character_prompts
          ELSE /\ calls' = Append(calls, Call("claude", "character", role,
                      <<"style_guide", "gender">>, <<>>, <<>>, "ok"))
               /\ character_prompts' =
                      Append(character_prompts, AutoCharacterPrompt(r))
               /\ pc' = "character_image"
               /\ UNCHANGED exception
    /\ UNCHANGED <<target_lyrics, custom_input, fault, role, idx, generated_images,
                   previous_prompts, character_refs, log, disk, result>>
    /\ UNCHANGED <<selVars, exVars, stVars, fnVars, sdVars, vdVars, auVars,
                   baVars>>

\* a failed image request is issued again
CharacterImage_Retries ==
    /\ pc = "character_image"
    /\ LET failing == /\ FaultAt("seedream_character", role)
                      /\ fault.kind \in {"request_error", "malformed"}
           outcome == IF failing THEN SeedreamException(fault.kind) ELSE "ok"
       IN /\ calls' = Append(calls, Call("seedream", "character", role,
                 <<character_prompts[role]>>, <<>>, <<>>, outcome))
          /\ pc' = IF failing THEN "character_image" ELSE "character_download"
          /\ UNCHANGED exception
    /\ UNCHANGED <<target_lyrics, custom_input, fault, role, idx, generated_images,
                   previous_prompts, character_refs, character_prompts, log, disk,
                   result>>
    /\ UNCHANGED <<selVars, exVars, stVars, fnVars, sdVars, vdVars, auVars,
                   baVars>>

\* seedream.generate_image(prompt, reference_image_paths=None); result['data'][0]['url']
CharacterImage ==
    /\ pc = "character_image"
    /\ LET failing == /\ FaultAt("seedream_character", role)
                      /\ fault.kind \in {"request_error", "malformed"}
           outcome == IF failing THEN SeedreamException(fault.kind) ELSE "ok"
       IN /\ calls' = Append(calls, Call("seedream", "character", role,
                 <<character_prompts[role]>>, <<>>, <<>>, outcome))
          /\ IF failing
             THEN /\ exception' = outcome
                  /\ pc' = "raised"
             ELSE /\ pc' = "character_download"
                  /\ UNCHANGED exception
    /\ UNCHANGED <<target_lyrics, custom_input, fault, role, idx, generated_images,
                   previous_prompts, character_refs, character_prompts, log, disk,
                   result>>
    /\ UNCHANGED <<selVars, exVars, stVars, fnVars, sdVars, vdVars, auVars,
                   baVars>>

\* a failed download is skipped and the next role is designed
CharacterDownload_SkipsFailedRole ==
    /\ pc = "character_download"
    /\ LET failing == /\ FaultAt("seedream_character", role)
                      /\ fault.kind = "download_error"
           outcome == IF failing THEN SeedreamException(fault.kind) ELSE "ok"
           path == CharacterFile(Roles[role])
       IN /\ calls' = Append(calls, Call("download", "character", role,
                 <<path>>, <<>>, <<>>, outcome))
          /\ IF failing
             THEN UNCHANGED <<disk, character_refs>>
             ELSE /\ disk' = disk \cup {path}
                  /\ character_refs' = Append(character_refs, path)
          /\ IF role < Len(Roles)
             THEN /\ role' = role + 1
                  /\ pc' = "character_prompt"
             ELSE /\ pc' = "characters_done"
                  /\ UNCHANGED role
          /\ UNCHANGED exception
    /\ UNCHANGED <<target_lyrics, custom_input, fault, idx, generated_images,
                   previous_prompts, character_prompts, log, result>>
    /\ UNCHANGED <<selVars, exVars, stVars, fnVars, sdVars, vdVars, auVars,
                   baVars>>

\* seedream.download_image(url, frames_dir / "character_<role>.jpg")
CharacterDownload ==
    /\ pc = "character_download"
    /\ LET failing == /\ FaultAt("seedream_character", role)
                      /\ fault.kind = "download_error"
           outcome == IF failing THEN SeedreamException(fault.kind) ELSE "ok"
           path == CharacterFile(Roles[role])
       IN /\ calls' = Append(calls, Call("download", "character", role,
                 <<path>>, <<>>, <<>>, outcome))
          /\ IF failing
             THEN /\ exception' = outcome
                  /\ pc' = "raised"
                  /\ UNCHANGED <<disk, character_refs, role>>
             ELSE /\ disk' = disk \cup {path}
                  /\ character_refs' = Append(character_refs, path)
                  /\ IF role < Len(Roles)
                     THEN /\ role' = role + 1
                          /\ pc' = "character_prompt"
                     ELSE /\ pc' = "characters_done"
                          /\ UNCHANGED role
                  /\ UNCHANGED exception
    /\ UNCHANGED <<target_lyrics, custom_input, fault, idx, generated_images,
                   previous_prompts, character_prompts, log, result>>
    /\ UNCHANGED <<selVars, exVars, stVars, fnVars, sdVars, vdVars, auVars,
                   baVars>>

\* generate_character_designs returns; lines 119-126 log the designs.
CharacterDesignsDone ==
    /\ pc = "characters_done"
    /\ log' = Append(log, LogEntry("character_designs", 0, ""))
    /\ idx' = 0
    /\ pc' = "loop"
    /\ UNCHANGED <<target_lyrics, custom_input, fault, role, generated_images,
                   previous_prompts, character_refs, character_prompts, disk,
                   calls, exception, result>>
    /\ UNCHANGED <<selVars, exVars, stVars, fnVars, sdVars, vdVars, auVars,
                   baVars>>

(***************************************************************************)
(* The loop body of generate_all_images (lines 129-200), for the line at   *)
(* enumerate() index i.                                                    *)
(***************************************************************************)
\* Lines 136-159: the call that drafts the prompt of the line.  status is
\* "ok" or the exception the call raises.
LinePrompt(i, lyric, history) ==
    LET first == IsFirstLine(i)
        args == IF first THEN FirstPromptArguments ELSE NextPromptArguments
        binds == IF first
                 THEN CallBinds(generate_first_prompt_params,
                                Len(FirstPromptArguments), {})
                 ELSE CallBinds(generate_next_prompt_params,
                                Len(NextPromptArguments), NextPromptKeywords)
        \* generate_first_prompt returns the response text as it is; only
        \* generate_next_prompt extracts JSON from it
        failing == /\ FaultAt("claude_line", i + 1)
                   /\ \/ fault.kind = "api_error"
                      \/ ~first /\ fault.kind = "unparseable"
                      \/ ~first /\ DecisionReadFails(fault.kind)
        status == IF ~binds THEN "TypeError"
                  ELSE IF failing THEN ClaudeException(fault.kind)
                  ELSE "ok"
    IN [status |-> status,
        prompt |-> ScenePrompt(lyric.line_number),
        call |-> Call("claude", "line", i + 1, args,
                      IF "previous_prompts" \in Range(args) THEN history ELSE <<>>,
                      <<>>, status)]

\* Lines 166-176 (inside the try): the image request with the character
\* references and the download to the per-line file.
LineImage(i, lyric, prompt, refs, files) ==
    LET kind == IF FaultAt("seedream_line", i + 1) THEN fault.kind ELSE "none"
        attached == AttachedReferences(refs, files)
        path == LineFile(lyric.line_number)
        request == Call("seedream", "line", i + 1, <<prompt>>, <<>>, attached,
                        IF kind \in {"request_error", "malformed"}
                        THEN SeedreamException(kind) ELSE "ok")
        download == Call("download", "line", i + 1, <<path>>, <<>>, <<>>,
                         IF kind = "download_error"
                         THEN SeedreamException(kind) ELSE "ok")
    IN [status |-> IF kind = "none" THEN "ok" ELSE SeedreamException(kind),
        path |-> path,
        calls |-> IF request.outcome = "ok" THEN <<request, download>>
                  ELSE <<request>>]

\* Lines 183-192: the record appended for the line.
LineRecord(lyric, path, prompt, refs) ==
    GeneratedImage(lyric.line_number, path, prompt,
                   lyric.start_time_seconds, lyric.end_time_seconds, refs)

\* a failing line removes the frames written so far
LoopIteration_RemovesFrames ==
    /\ pc = "loop"
    /\ idx < Len(target_lyrics)
    /\ LET lyric == target_lyrics[idx + 1]
           started == Append(log, log_line_start(lyric.line_number))
           pr == LinePrompt(idx, lyric, previous_prompts)
       IN IF pr.status # "ok"
          THEN \* the prompt call is outside the try: nothing more is logged
               /\ log' = started
               /\ calls' = Append(calls, pr.call)
               /\ exception' = pr.status
               /\ pc' = "raised"
               /\ disk' = {}
               /\ UNCHANGED <<idx, generated_images, previous_prompts>>
          ELSE LET prompted == started \o <<LogEntry("prompt", 0, ""),
                                             LogEntry("reference", 0, "")>>
                   im == LineImage(idx, lyric, pr.prompt, character_refs, disk)
               IN /\ calls' = Append(calls, pr.call) \o im.calls
                  /\ IF im.status = "ok"
                     THEN /\ disk' = disk \cup {im.path}
                          /\ log' = Append(prompted, log_generation_result(TRUE))
                          /\ generated_images' = Append(generated_images,
                                 LineRecord(lyric, im.path, pr.prompt, character_refs))
                          /\ previous_prompts' = Append(previous_prompts, pr.prompt)
                          /\ idx' = idx + 1
                          /\ UNCHANGED <<pc, exception>>
                     ELSE \* except Exception: log the failure and re-raise
                          /\ log' = Append(prompted, log_generation_result(FALSE))
                          /\ exception' = im.status
                          /\ pc' = "raised"
                          /\ UNCHANGED <<idx, generated_images, previous_prompts,
                                         disk>>
    /\ UNCHANGED <<target_lyrics, custom_input, fault, role, character_refs,
                   character_prompts, result>>
    /\ UNCHANGED <<selVars, exVars, stVars, fnVars, sdVars, vdVars, auVars,
                   baVars>>

LoopIteration ==
    /\ pc = "loop"
    /\ idx < Len(target_lyrics)
    /\ LET lyric == target_lyrics[idx + 1]
           started == Append(log, log_line_start(lyric.line_number))
           pr == LinePrompt(idx, lyric, previous_prompts)
       IN IF pr.status # "ok"
          THEN \* the prompt call is outside the try: nothing more is logged
               /\ log' = started
               /\ calls' = Append(calls, pr.call)
               /\ exception' = pr.status
               /\ pc' = "raised"
               /\ UNCHANGED <<idx, generated_images, previous_prompts, disk>>
          ELSE LET prompted == started \o <<LogEntry("prompt", 0, ""),
                                             LogEntry("reference", 0, "")>>
                   im == LineImage(idx, lyric, pr.prompt, character_refs, disk)
               IN /\ calls' = Append(calls, pr.call) \o im.calls
                  /\ IF im.status = "ok"
                     THEN /\ disk' = disk \cup {im.path}
                          /\ log' = Append(prompted, log_generation_result(TRUE))
                          /\ generated_images' = Append(generated_images,
                                 LineRecord(lyric, im.path, pr.prompt, character_refs))
                          /\ previous_prompts' = Append(previous_prompts, pr.prompt)
                          /\ idx' = idx + 1
                          /\ UNCHANGED <<pc, exception>>
                     ELSE \* except Exception: log the failure and re-raise
                          /\ log' = Append(prompted, log_generation_result(FALSE))
                          /\ exception' = im.status
                          /\ pc' = "raised"
                          /\ UNCHANGED <<idx, generated_images, previous_prompts,
                                         disk>>
    /\ UNCHANGED <<target_lyrics, custom_input, fault, role, character_refs,
                   character_prompts, result>>
    /\ UNCHANGED <<selVars, exVars, stVars, fnVars, sdVars, vdVars, auVars,
                   baVars>>

(***************************************************************************)
(* Lines 202-207: the loop is exhausted; log_summary divides the total     *)
(* time by the number of images, then the list is returned.                *)
(***************************************************************************)
\* GenerationLogger.log_summary(total_images, total_time)
log_summary(total_images) ==
    IF total_images = 0
    THEN [status |-> "ZeroDivisionError",
          entries |-> <<LogEntry("summary", 0, "")>>]
    ELSE [status |-> "ok",
          entries |-> <<LogEntry("summary", 0, ""), LogEntry("average", 0, "")>>]

LoopExit ==
    /\ pc = "loop"
    /\ idx = Len(target_lyrics)
    /\ LET sm == log_summary(Len(generated_images))
       IN /\ log' = log \o sm.entries
          /\ IF sm.status = "ok"
             THEN /\ result' = generated_images
                  /\ pc' = "returned"
                  /\ UNCHANGED exception
             ELSE /\ exception' = sm.status
                  /\ pc' = "raised"
                  /\ UNCHANGED result
    /\ UNCHANGED <<target_lyrics, custom_input, fault, role, idx, generated_images,
                   previous_prompts, character_refs, character_prompts, disk, calls>>
    /\ UNCHANGED <<selVars, exVars, stVars, fnVars, sdVars, vdVars, auVars,
                   baVars>>

(***************************************************************************)
(* The director's specification.                                           *)
(***************************************************************************)
DirectorCustomInputs ==
    {NoCustomInput}
    \cup {CustomCreativeInput("None", m, f, "None") :
              m \in {"None", "", "a tall man"}, f \in {"None", "a short woman"}}

IdleDirector ==
    /\ target_lyrics = <<>>
    /\ custom_input = NoCustomInput
    /\ fault = NoFault
    /\ pc = "idle"
    /\ role = 0
    /\ idx = 0
    /\ generated_images = <<>>
    /\ previous_prompts = <<>>
    /\ character_refs = <<>>
    /\ character_prompts = <<>>
    /\ log = <<>>
    /\ disk = {}
    /\ calls = <<>>
    /\ exception = ""
    /\ result = <<>>

IdleSelect == sel_in = <<>> /\ sel_out = <<>>
IdleExtract == ex_in = <<>> /\ ex_out = <<>>
IdleStyle == st_in = <<>> /\ st_out = <<>>
IdleFilename == fn_in = <<>> /\ fn_out = <<>>
IdleSeedream == sd_in = <<>> /\ sd_out = <<>>
IdleVideo == vd_in = <<>> /\ vd_out = <<>>
IdleAudio == au_in = <<>> /\ au_st = <<>>
IdleBatch == ba_in = <<>> /\ ba_st = <<>>

Init ==
    /\ \E db \in (SUBSET (1..MaxLines)) \ {{}} :
       \E start_line \in 1..MaxLines :
       \E end_line \in 0..MaxLines :
           target_lyrics = fetch_all_data(db, start_line, end_line)
    /\ custom_input \in DirectorCustomInputs
    /\ fault \in Faults
    /\ pc = "start"
    /\ role = 0
    /\ idx = 0
    /\ generated_images = <<>>
    /\ previous_prompts = <<>>
    /\ character_refs = <<>>
    /\ character_prompts = <<>>
    /\ log = <<>>
    /\ disk = {}
    /\ calls = <<>>
    /\ exception = ""
    /\ result = <<>>
    /\ IdleSelect /\ IdleExtract /\ IdleStyle /\ IdleFilename /\ IdleSeedream
    /\ IdleVideo /\ IdleAudio /\ IdleBatch

Next ==
    \/ Begin
    \/ CharacterPrompt
    \/ CharacterImage
    \/ CharacterDownload
    \/ CharacterDesignsDone
    \/ LoopIteration
    \/ LoopExit

Spec == Init /\ [][Next]_vars

Finished == pc \in {"returned", "raised"}

(***************************************************************************)
(* ReferenceSelector.select_references (src/agents/reference_selector.py). *)
(***************************************************************************)
\* longest history handed to the selector
MaxHistory == 2
\* longest list of indices in the language service's answer
MaxSelected == 4

RECURSIVE SeqsUpTo(_, _)
\* all sequences over S of length at most n
SeqsUpTo(S, n) ==
    IF n = 0 THEN {<<>>}
    ELSE LET shorter == SeqsUpTo(S, n - 1)
         IN shorter \cup {Append(q, x) : q \in shorter, x \in S}

HistoryPath(i) == "line_" \o ToString(i) \o ".jpg"

\* only the upper bound is tested: a negative index counts from the end
RECURSIVE InRangePaths_NegativeWraps(_, _)
InRangePaths_NegativeWraps(selected_indices, previous_paths) ==
    IF selected_indices = <<>> THEN <<>>
    ELSE LET i == Head(selected_indices)
             n == Len(previous_paths)
         IN (IF i < n /\ i + n >= 0
             THEN <<previous_paths[(IF i < 0 THEN i + n ELSE i) + 1]>> ELSE <<>>)
            \o InRangePaths_NegativeWraps(Tail(selected_indices), previous_paths)

RECURSIVE InRangePaths(_, _)
\* for idx in selected_indices: if 0 <= idx < len(previous_paths): append
InRangePaths(selected_indices, previous_paths) ==
    IF selected_indices = <<>> THEN <<>>
    ELSE LET i == Head(selected_indices)
         IN (IF 0 <= i /\ i < Len(previous_paths)
             THEN <<previous_paths[i + 1]>> ELSE <<>>)
            \o InRangePaths(Tail(selected_indices), previous_paths)

\* answer: what claude.select_reference_images gives for this call
select_references(prior_prompts, previous_paths, answer) ==
    IF Len(prior_prompts) = 0
    THEN [status |-> "returned", paths |-> <<>>, indices |-> <<>>,
          claude_calls |-> 0]
    ELSE IF answer.kind # "object"
    THEN [status |-> "raised", paths |-> <<>>, indices |-> <<>>,
          claude_calls |-> 1]
    ELSE LET selected_indices == IF answer.has_indices
                                 THEN answer.selected_indices ELSE <<>>
         IN [status |-> "returned",
             paths |-> InRangePaths(selected_indices, previous_paths),
             indices |-> selected_indices,
             claude_calls |-> 1]

SelectAnswers ==
    [kind : {"object"}, has_indices : {TRUE},
     selected_indices : SeqsUpTo((-1)..MaxHistory, MaxSelected)]
    \cup [kind : {"object"}, has_indices : {FALSE}, selected_indices : {<<>>}]
    \cup [kind : {"api_error", "unparseable"}, has_indices : {FALSE},
          selected_indices : {<<>>}]

SelectPending ==
    [status |-> "pending", paths |-> <<>>, indices |-> <<>>, claude_calls |-> 0]

InitSelect ==
    /\ IdleDirector /\ IdleExtract /\ IdleStyle /\ IdleFilename /\ IdleSeedream
    /\ IdleVideo /\ IdleAudio /\ IdleBatch
    /\ \E h \in 0..MaxHistory, a \in SelectAnswers :
           sel_in = [previous_prompts |-> [i \in 1..h |-> ScenePrompt(i)],
                     previous_paths |-> [i \in 1..h |-> HistoryPath(i - 1)],
                     answer |-> a]
    /\ sel_out = SelectPending

SelectReferences ==
    /\ sel_out.status = "pending"
    /\ sel_out' = select_references(sel_in.previous_prompts, sel_in.previous_paths,
                                    sel_in.answer)
    /\ UNCHANGED <<sel_in, dirVars, exVars, stVars, fnVars, sdVars, vdVars, auVars,
                   baVars>>

NextSelect == SelectReferences

SpecSelect == InitSelect /\ [][NextSelect]_vars

(***************************************************************************)
(* ClaudeClient._extract_json (src/utils/claude_client.py, lines 54-75).   *)
(* A text is a sequence of tokens: the braces and brackets of JSON, "kv"   *)
(* (a member with a scalar value), "k:" (a key, followed by its value),    *)
(* "n" (a scalar), "w" (a word that is not JSON), " " (whitespace),        *)
(* "fence" (a code fence) and "json" (the tag after a fence).                *)
(***************************************************************************)
\* longest JSON object of the responses, in tokens
MaxJsonLen == 5
\* longest prose before and after the JSON object, in tokens
MaxProse == 2

JsonTokens == {"{", "}", "[", "]", "kv", "k:", "n"}
ProseTokens == {"w", "{", "}", " "}

StripWhitespace(s) == SelectSeq(s, LAMBDA t : t # " ")

RECURSIVE ParseValue(_, _), ParseMembers(_, _), ParseElements(_, _)
\* Each returns the index after what it parsed from index i on, 0 if it fails.
ParseValue(s, i) ==
    IF i > Len(s) THEN 0
    ELSE CASE s[i] = "{" -> ParseMembers(s, i + 1)
           [] s[i] = "[" -> ParseElements(s, i + 1)
           [] s[i] = "n" -> i + 1
           [] OTHER -> 0

ParseMembers(s, i) ==
    IF i > Len(s) THEN 0
    ELSE CASE s[i] = "}" -> i + 1
           [] s[i] = "kv" -> ParseMembers(s, i + 1)
           [] s[i] = "k:" -> LET j == ParseValue(s, i + 1)
                             IN IF j = 0 THEN 0 ELSE ParseMembers(s, j)
           [] OTHER -> 0

ParseElements(s, i) ==
    IF i > Len(s) THEN 0
    ELSE IF s[i] = "]" THEN i + 1
    ELSE LET j == ParseValue(s, i)
         IN IF j = 0 THEN 0 ELSE ParseElements(s, j)

\* json.loads: whitespace around the tokens is ignored, the whole text must be
\* one JSON value; the value is given by its tokens.
json_loads(text) ==
    LET s == StripWhitespace(text)
    IN IF ParseValue(s, 1) = Len(s) + 1
       THEN [ok |-> TRUE, value |-> s]
       ELSE [ok |-> FALSE, value |-> <<>>]

\* index of the first token at or after i that is not whitespace
RECURSIVE SkipWhitespace(_, _)
SkipWhitespace(s, i) ==
    IF i <= Len(s) /\ s[i] = " " THEN SkipWhitespace(s, i + 1) ELSE i

\* the search for a fenced block, fence (json)? \s* ( { .*? } ) \s* fence: the group of
\* the leftmost match, the shortest from its opening brace.
FenceGroup(s) ==
    LET open(i) == SkipWhitespace(s,
                       IF i + 1 <= Len(s) /\ s[i + 1] = "json" THEN i + 2 ELSE i + 1)
        closes(i) == {e \in (open(i) + 1)..Len(s) :
                         /\ s[e] = "}"
                         /\ SkipWhitespace(s, e + 1) <= Len(s)
                         /\ s[SkipWhitespace(s, e + 1)] = "fence"}
        starts == {i \in 1..Len(s) :
                      /\ s[i] = "fence"
                      /\ open(i) <= Len(s)
                      /\ s[open(i)] = "{"
                      /\ closes(i) # {}}
    IN IF starts = {} THEN [found |-> FALSE, group |-> <<>>]
       ELSE LET i == CHOOSE x \in starts : \A y \in starts : x <= y
                e == CHOOSE x \in closes(i) : \A y \in closes(i) : x <= y
            IN [found |-> TRUE, group |-> SubSeq(s, open(i), e)]

\* the search for { .* } with DOTALL: from the first "{" to the last "}".
BraceGroup(s) ==
    LET opens == {i \in 1..Len(s) : s[i] = "{"}
        first == CHOOSE x \in opens : \A y \in opens : x <= y
        ends == {e \in 1..Len(s) : s[e] = "}" /\ e > first}
    IN IF opens = {} \/ ends = {} THEN [found |-> FALSE, group |-> <<>>]
       ELSE LET last == CHOOSE x \in ends : \A y \in ends : y <= x
            IN [found |-> TRUE, group |-> SubSeq(s, first, last)]

_extract_json(text) ==
    LET whole == json_loads(text)
        fence == FenceGroup(text)
        fenced == json_loads(fence.group)
        brace == BraceGroup(text)
        braced == json_loads(brace.group)
    IN IF whole.ok THEN [status |-> "returned", value |-> whole.value]
       ELSE IF fence.found /\ fenced.ok
       THEN [status |-> "returned", value |-> fenced.value]
       ELSE IF brace.found /\ braced.ok
       THEN [status |-> "returned", value |-> braced.value]
       ELSE [status |-> "ValueError", value |-> <<>>]

\* the JSON objects a response may carry
JsonObjects ==
    {s \in SeqsUpTo(JsonTokens, MaxJsonLen) :
        Len(s) > 0 /\ s[1] = "{" /\ json_loads(s).ok}

Prose == SeqsUpTo(ProseTokens, MaxProse)

\* a response: the object bare, inside a code fence, or among prose; or JSON
\* that is not an object: an array holding the object, or a scalar
ResponseText(form, tag, json, before, after) ==
    CASE form = "bare"   -> json
      [] form = "fenced" -> before \o <<"fence">> \o tag \o <<" ">> \o json
                            \o <<" ", "fence">> \o after
      [] form = "prose"  -> before \o json \o after
      [] form = "array"  -> <<"[">> \o json \o <<"]">>
      [] form = "scalar" -> <<"n">>

InitExtract ==
    /\ IdleDirector /\ IdleSelect /\ IdleStyle /\ IdleFilename /\ IdleSeedream
    /\ IdleVideo /\ IdleAudio /\ IdleBatch
    /\ \E form \in {"bare", "fenced", "prose", "array", "scalar"},
          json \in JsonObjects,
          before \in Prose, after \in Prose, tag \in {<<>>, <<"json">>, <<"w">>} :
           /\ form \in {"bare", "array", "scalar"} => before = <<>> /\ after = <<>>
           /\ form # "fenced" => tag = <<>>
           /\ ex_in = [form |-> form, tag |-> tag, json |-> json,
                       before |-> before, after |-> after,
                       text |-> ResponseText(form, tag, json, before, after)]
    /\ ex_out = [status |-> "pending", value |-> <<>>]

ExtractJson ==
    /\ ex_out.status = "pending"
    /\ ex_out' = _extract_json(ex_in.text)
    /\ UNCHANGED <<ex_in, dirVars, selVars, stVars, fnVars, sdVars, vdVars, auVars,
                   baVars>>

NextExtract == ExtractJson

SpecExtract == InitExtract /\ [][NextExtract]_vars

(***************************************************************************)
(* StylePlanner.create_style_guide (src/agents/style_planner.py).          *)
(***************************************************************************)
\* the fixed visual style of the custom-story path
CustomVisualStyle == "High-quality Korean webtoon style"

StyleGuide(visual_style, segment_story, is_conversation) ==
    [visual_style |-> visual_style, segment_story |-> segment_story,
     is_conversation |-> is_conversation]

NoStyleGuide == StyleGuide("", "", "")

\* StyleGuide(**style_data): visual_style and segment_story are required,
\* is_conversation has the default True.
StyleGuideFromData(data) ==
    IF {"visual_style", "segment_story"} \subseteq data.keys
    THEN [status |-> "returned",
          style_guide |-> StyleGuide(data.visual_style, data.segment_story,
                             IF "is_conversation" \in data.keys
                             THEN data.is_conversation ELSE "True"),
          claude_calls |-> 1]
    ELSE [status |-> "ValidationError", style_guide |-> NoStyleGuide,
          claude_calls |-> 1]

\* the custom-story test of line 16
UsesCustomStory(ci) == ci.present /\ Truthy(ci.story_description)

\* is_conversation of the custom-story path (line 23)
CustomIsConversation(ci) ==
    IF ci.is_conversation # "None" THEN ci.is_conversation ELSE "True"

\* answer: what claude.create_style_guide gives when it is called
create_style_guide_IgnoresOverride(ci, answer) ==
    IF UsesCustomStory(ci)
    THEN [status |-> "returned",
          style_guide |-> StyleGuide(CustomVisualStyle, ci.story_description, "True"),
          claude_calls |-> 0]
    ELSE IF answer.kind # "object"
    THEN [status |-> ClaudeException(answer.kind), style_guide |-> NoStyleGuide,
          claude_calls |-> 1]
    ELSE StyleGuideFromData(answer)

create_style_guide(ci, answer) ==
    IF UsesCustomStory(ci)
    THEN [status |-> "returned",
          style_guide |-> StyleGuide(CustomVisualStyle, ci.story_description,
                                     CustomIsConversation(ci)),
          claude_calls |-> 0]
    ELSE IF answer.kind # "object"
    THEN [status |-> ClaudeException(answer.kind), style_guide |-> NoStyleGuide,
          claude_calls |-> 1]
    ELSE StyleGuideFromData(answer)

StyleCustomInputs ==
    {NoCustomInput}
    \cup {CustomCreativeInput(story, "None", "None", conv) :
              story \in {"None", "", "Two friends meeting at a cafe",
                         "A bear walking through Seoul"},
              conv \in {"None", "True", "False"}}

StyleAnswers ==
    [kind : {"object"},
     keys : SUBSET {"visual_style", "segment_story", "is_conversation"},
     visual_style : {"watercolor"}, segment_story : {"a walk in the park"},
     is_conversation : {"True", "False"}]
    \cup [kind : {"api_error", "unparseable"}, keys : {{}},
          visual_style : {""}, segment_story : {""}, is_conversation : {""}]

StylePending ==
    [status |-> "pending", style_guide |-> NoStyleGuide, claude_calls |-> 0]

InitStyle ==
    /\ IdleDirector /\ IdleSelect /\ IdleExtract /\ IdleFilename /\ IdleSeedream
    /\ IdleVideo /\ IdleAudio /\ IdleBatch
    /\ \E ci \in StyleCustomInputs, a \in StyleAnswers :
           st_in = [custom_input |-> ci, answer |-> a]
    /\ st_out = StylePending

CreateStyleGuide ==
    /\ st_out.status = "pending"
    /\ st_out' = create_style_guide(st_in.custom_input, st_in.answer)
    /\ UNCHANGED <<st_in, dirVars, selVars, exVars, fnVars, sdVars, vdVars, auVars,
                   baVars>>

NextStyle == CreateStyleGuide

SpecStyle == InitStyle /\ [][NextStyle]_vars

(***************************************************************************)
(* The per-line frame filename (image_director.py line 173, the same       *)
(* expression in create_video.py line 27) and the order of str.            *)
(***************************************************************************)
\* largest line number of the filenames compared
MaxLineNumber == 1000

\* s < t on str: by code point, a proper prefix sorts first
RECURSIVE LexLess(_, _)
LexLess(s, t) ==
    IF t = <<>> THEN FALSE
    ELSE IF s = <<>> THEN TRUE
    ELSE IF Head(s) # Head(t) THEN Head(s) < Head(t)
    ELSE LexLess(Tail(s), Tail(t))

FilenamePending == [status |-> "pending", name_a |-> <<>>, name_b |-> <<>>]

InitFilename ==
    /\ IdleDirector /\ IdleSelect /\ IdleExtract /\ IdleStyle /\ IdleSeedream
    /\ IdleVideo /\ IdleAudio /\ IdleBatch
    /\ \E a \in 1..MaxLineNumber, b \in 1..MaxLineNumber :
           /\ a < b
           /\ fn_in = [a |-> a, b |-> b]
    /\ fn_out = FilenamePending

\* the frames of lines a and b are named
NameFrames ==
    /\ fn_out.status = "pending"
    /\ fn_out' = [status |-> "named", name_a |-> image_filename(fn_in.a),
                  name_b |-> image_filename(fn_in.b)]
    /\ UNCHANGED <<fn_in, dirVars, selVars, exVars, stVars, sdVars, vdVars, auVars,
                   baVars>>

NextFilename == NameFrames

SpecFilename == InitFilename /\ [][NextFilename]_vars

(***************************************************************************)
(* SeedreamClient.generate_image (src/utils/seedream_client.py, lines      *)
(* 17-90): the references loaded into the payload and the request.         *)
(*   paths: reference_image_paths (None is the empty list: line 40 treats  *)
(*          both alike); files: the paths that exist; unreadable: the      *)
(*          existing paths whose open() or read() raises; request: whether *)
(*          the POST succeeds.                                             *)
(***************************************************************************)
\* longest list of reference paths handed to generate_image
MaxSupplied == 11
\* most references that exist but cannot be read
MaxUnreadable == 1

RefPath(i) == "ref_" \o ToString(i) \o ".jpg"

generate_image(paths, files, unreadable, request) ==
    LET valid_paths == AttachedReferences(paths, files)
        \* lines 47-56 run inside the try of line 41: one failing open() leaves
        \* the handler of line 67 and payload["image"] is never assigned
        load_failed == Range(valid_paths) \cap unreadable # {}
        images_data == IF load_failed THEN <<>> ELSE valid_paths
        image == IF Len(images_data) = 0 THEN [shape |-> "absent", refs |-> <<>>]
                 ELSE IF Len(images_data) = 1
                 THEN [shape |-> "single", refs |-> images_data]
                 ELSE [shape |-> "array", refs |-> images_data]
    IN [status |-> IF request = "ok" THEN "returned" ELSE "RequestException",
        posts |-> 1,
        image |-> image]

SeedreamPending ==
    [status |-> "pending", posts |-> 0, image |-> [shape |-> "absent", refs |-> <<>>]]

InitSeedream ==
    /\ IdleDirector /\ IdleSelect /\ IdleExtract /\ IdleStyle /\ IdleFilename
    /\ IdleVideo /\ IdleAudio /\ IdleBatch
    /\ \E n \in 0..MaxSupplied :
       \E existing \in SUBSET (1..n) :
       \E bad \in SUBSET existing :
       \E request \in {"ok", "error"} :
           /\ Cardinality(bad) <= MaxUnreadable
           /\ sd_in = [paths |-> [i \in 1..n |-> RefPath(i)],
                       files |-> {RefPath(i) : i \in existing},
                       unreadable |-> {RefPath(i) : i \in bad},
                       request |-> request]
    /\ sd_out = SeedreamPending

GenerateImage ==
    /\ sd_out.status = "pending"
    /\ sd_out' = generate_image(sd_in.paths, sd_in.files, sd_in.unreadable,
                                sd_in.request)
    /\ UNCHANGED <<sd_in, dirVars, selVars, exVars, stVars, fnVars, vdVars, auVars,
                   baVars>>

NextSeedream == GenerateImage

SpecSeedream == InitSeedream /\ [][NextSeedream]_vars

(***************************************************************************)
(* The audio file: DataRetriever.fetch_all_data, lines 32-37, and          *)
(* SupabaseClient.download_audio_file (src/utils/supabase_client.py, lines *)
(* 72-108).  The inputs are whether the local file exists already and what *)
(* the GET of each candidate URL does.                                     *)
(***************************************************************************)
\* len(possible_urls)
NumAudioUrls == 3

\* raise_for_status fails (HTTPError), or the GET raises something else
AudioResponses == {"ok", "http_error", "error"}

AudioState(position, url, tried, writes, file) ==
    [pc |-> position, url |-> url, tried |-> tried, writes |-> writes, file |-> file]

InitAudio ==
    /\ IdleDirector /\ IdleSelect /\ IdleExtract /\ IdleStyle /\ IdleFilename
    /\ IdleSeedream /\ IdleVideo /\ IdleBatch
    /\ \E exists \in BOOLEAN, responses \in [1..NumAudioUrls -> AudioResponses] :
           /\ au_in = [exists |-> exists, responses |-> responses]
           /\ au_st = AudioState("start", 0, <<>>, <<>>,
                                 IF exists THEN "present" ELSE "absent")

\* if not audio_path.exists(): self.supabase.download_audio_file(...)
FetchAudio ==
    /\ au_st.pc = "start"
    /\ au_st' = IF au_in.exists
                THEN [au_st EXCEPT !.pc = "returned"]
                ELSE [au_st EXCEPT !.pc = "try", !.url = 1]
    /\ UNCHANGED <<au_in, dirVars, selVars, exVars, stVars, fnVars, sdVars, vdVars,
                   baVars>>

\* the loop goes on after a successful download
TryUrl_KeepsGoing ==
    /\ au_st.pc = "try"
    /\ au_st.url <= NumAudioUrls
    /\ LET u == au_st.url
       IN au_st' = IF au_in.responses[u] = "ok"
                   THEN [au_st EXCEPT !.tried = Append(@, u),
                                      !.writes = Append(@, u),
                                      !.file = "present",
                                      !.url = u + 1]
                   ELSE [au_st EXCEPT !.tried = Append(@, u), !.url = u + 1]
    /\ UNCHANGED <<au_in, dirVars, selVars, exVars, stVars, fnVars, sdVars, vdVars,
                   baVars>>

\* one iteration of for url in possible_urls: the GET, and on success
\* write_bytes and break; on any exception continue
TryUrl ==
    /\ au_st.pc = "try"
    /\ au_st.url <= NumAudioUrls
    /\ LET u == au_st.url
       IN au_st' = IF au_in.responses[u] = "ok"
                   THEN [au_st EXCEPT !.tried = Append(@, u),
                                      !.writes = Append(@, u),
                                      !.file = "present",
                                      !.pc = "returned"]
                   ELSE [au_st EXCEPT !.tried = Append(@, u), !.url = u + 1]
    /\ UNCHANGED <<au_in, dirVars, selVars, exVars, stVars, fnVars, sdVars, vdVars,
                   baVars>>

\* the loop is exhausted: if not successful_download: raise Exception(...)
AllUrlsTried ==
    /\ au_st.pc = "try"
    /\ au_st.url > NumAudioUrls
    /\ au_st' = [au_st EXCEPT !.pc = IF au_st.writes = <<>> THEN "raised"
                                     ELSE "returned"]
    /\ UNCHANGED <<au_in, dirVars, selVars, exVars, stVars, fnVars, sdVars, vdVars,
                   baVars>>

NextAudio ==
    \/ FetchAudio
    \/ TryUrl
    \/ AllUrlsTried

SpecAudio == InitAudio /\ [][NextAudio]_vars

(***************************************************************************)
(* generate_lyric_video (src/main.py) and DriveUploader.upload_video       *)
(* (src/agents/drive_uploader.py).  The inputs: the number of lyric lines  *)
(* in the requested range, the collaborator that fails before the loop of  *)
(* image generation (if any), the two upload flags and what the drive      *)
(* does.                                                                   *)
(***************************************************************************)
VideoServices == {"ok", "fetch_error", "style_error", "character_error"}

\* init_error: DriveUploader() raises; upload_error: upload_file raises;
\* delete_error: stat() or unlink() raises after the upload
DriveOutcomes == {"ok", "init_error", "upload_error", "delete_error"}

\* director.generate_all_images at main.py:115 for a non-empty range whose
\* character designs succeed: what the first line's prompt call does
DirectorOutcome == LinePrompt(0, LyricLine(1), <<>>).status

\* DriveUploader.upload_video: the except clause re-raises
upload_video(delete_after_upload, drive) ==
    IF drive = "upload_error"
    THEN [status |-> "raised", uploaded |-> FALSE, deleted |-> FALSE]
    ELSE IF delete_after_upload /\ drive = "delete_error"
    THEN [status |-> "raised", uploaded |-> TRUE, deleted |-> FALSE]
    ELSE [status |-> "returned", uploaded |-> TRUE, deleted |-> delete_after_upload]

VideoResult(status, raised, uploads, uploaded, deleted, video) ==
    [status |-> status, exception |-> raised, uploads |-> uploads,
     uploaded |-> uploaded, deleted |-> deleted, video |-> video]

VideoRaised(raised) == VideoResult("raised", raised, 0, FALSE, FALSE, "absent")

generate_lyric_video(lines, services, upload_to_drive, delete_after_upload, drive) ==
    IF services = "fetch_error" THEN VideoRaised("Exception")
    \* line 101: target_lyrics[-1]
    ELSE IF lines = 0 THEN VideoRaised("IndexError")
    ELSE IF services = "style_error" THEN VideoRaised("APIError")
    ELSE IF services = "character_error" THEN VideoRaised("RequestException(post)")
    ELSE IF DirectorOutcome # "ok" THEN VideoRaised(DirectorOutcome)
    \* lines 118-147: the video is assembled; lines 149-168: the upload
    ELSE IF ~upload_to_drive
    THEN VideoResult("returned", "", 0, FALSE, FALSE, "present")
    ELSE IF drive = "init_error"
    THEN VideoResult("returned", "", 0, FALSE, FALSE, "present")
    ELSE LET u == upload_video(delete_after_upload, drive)
         IN VideoResult("returned", "", 1, u.uploaded, u.deleted,
                        IF u.deleted THEN "absent" ELSE "present")

VideoPending == VideoResult("pending", "", 0, FALSE, FALSE, "absent")

InitVideo ==
    /\ IdleDirector /\ IdleSelect /\ IdleExtract /\ IdleStyle /\ IdleFilename
    /\ IdleSeedream /\ IdleAudio /\ IdleBatch
    /\ \E lines \in 0..MaxLines, services \in VideoServices,
          upload_to_drive \in BOOLEAN, delete_after_upload \in BOOLEAN,
          drive \in DriveOutcomes :
           vd_in = [lines |-> lines, services |-> services,
                    upload_to_drive |-> upload_to_drive,
                    delete_after_upload |-> delete_after_upload, drive |-> drive]
    /\ vd_out = VideoPending

GenerateLyricVideo ==
    /\ vd_out.status = "pending"
    /\ vd_out' = generate_lyric_video(vd_in.lines, vd_in.services,
                      vd_in.upload_to_drive, vd_in.delete_after_upload, vd_in.drive)
    /\ UNCHANGED <<vd_in, dirVars, selVars, exVars, stVars, fnVars, sdVars, auVars,
                   baVars>>

NextVideo == GenerateLyricVideo

SpecVideo == InitVideo /\ [][NextVideo]_vars

(***************************************************************************)
(* process_all_songs (src/main2.py): every fetched song is handed to       *)
(* generate_lyric_video for lines 1 to 8 with upload and deletion on.      *)
(***************************************************************************)
\* most songs of a batch
MaxSongs == 3

\* what a song of the batch meets: its lines in the range, the collaborator
\* that fails first, the drive
SongEnvironments ==
    [lines : {0, 2}, services : {"ok", "fetch_error"}, drive : {"ok", "upload_error"}]

BatchState(position, at, attempts, successful, failed) ==
    [pc |-> position, idx |-> at, attempts |-> attempts,
     successful |-> successful, failed |-> failed]

InitBatch ==
    /\ IdleDirector /\ IdleSelect /\ IdleExtract /\ IdleStyle /\ IdleFilename
    /\ IdleSeedream /\ IdleVideo /\ IdleAudio
    /\ \E n \in 0..MaxSongs : ba_in \in [1..n -> SongEnvironments]
    /\ ba_st = BatchState("start", 0, <<>>, <<>>, <<>>)

\* lines 41-62: the songs are fetched; an empty list ends the batch
FetchSongs ==
    /\ ba_st.pc = "start"
    /\ ba_st' = IF Len(ba_in) = 0
                THEN [ba_st EXCEPT !.pc = "returned"]
                ELSE [ba_st EXCEPT !.pc = "loop", !.idx = 1]
    /\ UNCHANGED <<ba_in, dirVars, selVars, exVars, stVars, fnVars, sdVars, vdVars,
                   auVars>>

\* a failing song ends the batch
ProcessSong_StopsOnFailure ==
    /\ ba_st.pc = "loop"
    /\ ba_st.idx <= Len(ba_in)
    /\ LET song == ba_in[ba_st.idx]
           video == generate_lyric_video(song.lines, song.services, TRUE, TRUE,
                                         song.drive)
       IN ba_st' = IF video.status = "returned"
                   THEN [ba_st EXCEPT !.attempts = Append(@, ba_st.idx),
                                      !.successful = Append(@, ba_st.idx),
                                      !.idx = @ + 1]
                   ELSE [ba_st EXCEPT !.attempts = Append(@, ba_st.idx),
                                      !.pc = "raised"]
    /\ UNCHANGED <<ba_in, dirVars, selVars, exVars, stVars, fnVars, sdVars, vdVars,
                   auVars>>

\* lines 65-113: one iteration of the loop over the songs
ProcessSong ==
    /\ ba_st.pc = "loop"
    /\ ba_st.idx <= Len(ba_in)
    /\ LET song == ba_in[ba_st.idx]
           video == generate_lyric_video(song.lines, song.services, TRUE, TRUE,
                                         song.drive)
       IN ba_st' = IF video.status = "returned"
                   THEN [ba_st EXCEPT !.attempts = Append(@, ba_st.idx),
                                      !.successful = Append(@, ba_st.idx),
                                      !.idx = @ + 1]
                   ELSE [ba_st EXCEPT !.attempts = Append(@, ba_st.idx),
                                      !.failed = Append(@, ba_st.idx),
                                      !.idx = @ + 1]
    /\ UNCHANGED <<ba_in, dirVars, selVars, exVars, stVars, fnVars, sdVars, vdVars,
                   auVars>>

\* lines 115 on: the final report
BatchReport ==
    /\ ba_st.pc = "loop"
    /\ ba_st.idx > Len(ba_in)
    /\ ba_st' = [ba_st EXCEPT !.pc = "returned"]
    /\ UNCHANGED <<ba_in, dirVars, selVars, exVars, stVars, fnVars, sdVars, vdVars,
                   auVars>>

NextBatch ==
    \/ FetchSongs
    \/ ProcessSong
    \/ BatchReport

SpecBatch == InitBatch /\ [][NextBatch]_vars

(***************************************************************************)
(* Properties of ImageDirector.generate_all_images (specification Spec).   *)
(***************************************************************************)
\* The environment lets every external call of the run succeed.
EveryExternalCallSucceeds == fault = NoFault

\* the image service is set to fail (request or download) for the k-th line
\* of the target range
ImageServiceFailsForLine(k) ==
    /\ fault.site = "seedream_line"
    /\ fault.at = k
    /\ k <= Len(target_lyrics)

\* the statuses of the generation-result entries logged for line n: those
\* between the line's start marker and the next start marker
ResultsOfLine(n) ==
    {log[j].status : j \in {j \in 1..Len(log) :
        /\ log[j].kind = "result"
        /\ \E i \in 1..(j - 1) :
              /\ log[i] = log_line_start(n)
              /\ \A m \in (i + 1)..(j - 1) : log[m].kind # "line_start"}}

\* the number of lines whose processing has begun
LinesStarted == Cardinality({i \in 1..Len(log) : log[i].kind = "line_start"})

\* C1: for every non-empty target range, a run in which every external call
\* succeeds ends by returning a list with one GeneratedImage per target line.
C1_ReturnsOneImagePerLine ==
    (Finished /\ Len(target_lyrics) > 0 /\ EveryExternalCallSucceeds)
        => (pc = "returned" /\ Len(result) = Len(target_lyrics))

\* C2: for any requested range, the run yields the list whose i-th record
\* carries the line number of the i-th target line, strictly increasing.
C2_ReturnedLineNumbersAreTheRange ==
    (Finished /\ EveryExternalCallSucceeds)
        => /\ pc = "returned"
           /\ [i \in 1..Len(result) |-> result[i].line_number]
                  = [i \in 1..Len(target_lyrics) |-> target_lyrics[i].line_number]
           /\ \A i \in 1..(Len(result) - 1) :
                  result[i].line_number < result[i + 1].line_number

\* C3: when the image service fails for line k of the range, the run raises
\* that exception and returns no list.
C3_ImageFailureIsRaised ==
    \A k \in 1..MaxLines :
        (Finished /\ ImageServiceFailsForLine(k))
            => /\ pc = "raised"
               /\ exception = SeedreamException(fault.kind)
               /\ result = <<>>

\* C4: when the image service fails for line k of the range, the log holds a
\* FAILED result entry for line k and a SUCCESS entry for every earlier line.
C4_ImageFailureIsLogged ==
    \A k \in 1..MaxLines :
        (Finished /\ ImageServiceFailsForLine(k))
            => /\ ResultsOfLine(target_lyrics[k].line_number) = {"FAILED"}
               /\ \A j \in 1..(k - 1) :
                      ResultsOfLine(target_lyrics[j].line_number) = {"SUCCESS"}

\* C5: between iterations and at the end of a run whose external calls all
\* succeeded, the prompt history holds one entry per line processed so far,
\* the last one being the prompt of the last line processed.
C5_HistoryHoldsProcessedLines ==
    (pc \in {"loop", "returned", "raised"} /\ EveryExternalCallSucceeds)
        => /\ Len(previous_prompts) = LinesStarted
           /\ \A k \in 1..Len(previous_prompts) :
                  previous_prompts[k] = ScenePrompt(target_lyrics[k].line_number)

\* C6: at the end of a run whose external calls all succeeded, every target
\* line has its GeneratedImage, carrying the line's own start and end time.
C6_TimesCopiedFromLyricLine ==
    (Finished /\ EveryExternalCallSucceeds)
        => \A i \in 1..Len(target_lyrics) :
               \E g \in Range(generated_images) :
                   /\ g.line_number = target_lyrics[i].line_number
                   /\ g.start_time = target_lyrics[i].start_time_seconds
                   /\ g.end_time = target_lyrics[i].end_time_seconds

\* the calls made while the first line of the range is processed
FirstLineCalls == {i \in 1..Len(calls) : calls[i].site = "line" /\ calls[i].at = 1}

\* C7: processing the first line of a range never hands the prompt history
\* (or an element of it) to the language service and never passes a file
\* other than the character designs as reference: the call carries only the
\* lyric, the style guide and the character design prompts.
C7_FirstLineStandsAlone ==
    \A i \in FirstLineCalls :
        /\ Range(calls[i].args) \cap {"previous_prompts"} = {}
        /\ calls[i].history = <<>>
        /\ calls[i].service = "claude" =>
               Range(calls[i].args)
                   \subseteq {"lyric", "style_guide", "character_design_prompts"}
        /\ Range(calls[i].refs) \subseteq Range(character_refs)
        /\ exception # "IndexError"

\* C7 witness: the first-line branch of a single-line range has acted.
C7_Witness ==
    /\ Len(target_lyrics) = 1
    /\ \E i \in FirstLineCalls :
           calls[i].service = "claude" /\ calls[i].args = FirstPromptArguments

(***************************************************************************)
(* Properties of select_references (SpecSelect), _extract_json             *)
(* (SpecExtract) and create_style_guide (SpecStyle).                       *)
(***************************************************************************)
\* C8: select_references returns at most 3 references, and every returned
\* index lies in [0, history length).
C8_ReferenceBound ==
    sel_out.status = "returned"
        => /\ Len(sel_out.paths) <= 3
           /\ \A i \in Range(sel_out.indices) :
                  0 <= i /\ i < Len(sel_in.previous_prompts)

\* C9: whether the object comes alone, inside a code fence or among prose,
\* _extract_json returns that object.
C9_ExtractsTheObject ==
    (ex_out.status # "pending" /\ ex_in.form \in {"bare", "fenced", "prose"})
        => (ex_out.status = "returned" /\ ex_out.value = ex_in.json)

\* C10: with a custom story description, create_style_guide returns a
\* StyleGuide whose segment_story is that text, makes no call to the language
\* service, and sets is_conversation to the override if given, else to true.
C10_CustomStoryVerbatim ==
    (/\ st_out.status # "pending"
     /\ st_in.custom_input.present
     /\ st_in.custom_input.story_description \notin {"None", ""})
        => /\ st_out.status = "returned"
           /\ st_out.style_guide.segment_story = st_in.custom_input.story_description
           /\ st_out.claude_calls = 0
           /\ st_out.style_guide.is_conversation =
                  (IF st_in.custom_input.is_conversation = "None" THEN "True"
                   ELSE st_in.custom_input.is_conversation)

\* C10 witness: a custom story with the conversation flag overridden to false
\* has been turned into a style guide.
C10_Witness ==
    /\ st_out.status = "returned"
    /\ st_in.custom_input.story_description = "A bear walking through Seoul"
    /\ st_in.custom_input.is_conversation = "False"

(***************************************************************************)
(* Properties of the frame filename (SpecFilename).                        *)
(***************************************************************************)
RECURSIVE Pow10(_)
Pow10(k) == IF k = 0 THEN 1 ELSE 10 * Pow10(k - 1)

\* the largest number that fits the padded width (999)
LargestPadded == Pow10(PadWidth) - 1

\* C11 (as stated): for any two line numbers a < b, the filename of a sorts
\* before the filename of b.
C11_FilenameOrderAnyLines ==
    fn_out.status = "named" => LexLess(fn_out.name_a, fn_out.name_b)

\* C11 (amended): for line numbers 1 <= a < b <= 999 (the numbers that fit the
\* three padded digits), the filename of a sorts before the filename of b.
C11_FilenameOrderUpTo999 ==
    (fn_out.status = "named" /\ fn_in.b <= LargestPadded)
        => LexLess(fn_out.name_a, fn_out.name_b)

\* C11 witness: lines 2 and 10 have been named, as line_002.jpg and
\* line_010.jpg.
C11_Witness ==
    /\ fn_out.status = "named"
    /\ fn_in = [a |-> 2, b |-> 10]
    /\ fn_out.name_a = <<108, 105, 110, 101, 95, 48, 48, 50, 46, 106, 112, 103>>
    /\ fn_out.name_b = <<108, 105, 110, 101, 95, 48, 49, 48, 46, 106, 112, 103>>

(***************************************************************************)
(* Properties of character design inside generate_all_images (Spec).       *)
(***************************************************************************)
\* a request of character design (prompt, image or download) has failed
CharacterDesignFailed ==
    \E i \in 1..Len(calls) : calls[i].site = "character" /\ calls[i].outcome # "ok"

\* generate_character_designs has returned to generate_all_images
CharacterDesignsReturned ==
    \/ pc \in {"characters_done", "loop", "returned"}
    \/ \E i \in 1..Len(log) : log[i].kind \in {"character_designs", "line_start"}

\* C12: once a prompt request, image request or download of a character role
\* has failed, the run has raised, generate_character_designs has returned
\* nothing (so no partial reference set), and no request has been or will be
\* issued for a lyric line; a set that is returned holds both references.
C12_CharacterFailureAborts ==
    /\ CharacterDesignFailed
           => /\ pc = "raised"
              /\ exception # ""
              /\ ~CharacterDesignsReturned
              /\ \A i \in 1..Len(calls) : calls[i].site # "line"
              /\ result = <<>>
    /\ CharacterDesignsReturned => Len(character_refs) = Len(Roles)

\* C12 witness: the female portrait's download has failed after the male
\* portrait was saved, and the run has raised.
C12_Witness ==
    /\ pc = "raised"
    /\ fault = [site |-> "seedream_character", at |-> 2, kind |-> "download_error"]
    /\ calls[Len(calls)].service = "download"
    /\ calls[Len(calls)].outcome # "ok"
    /\ character_refs = <<CharacterFile("male")>>

(***************************************************************************)
(* Properties of SeedreamClient.generate_image (SpecSeedream).             *)
(***************************************************************************)
\* the supplied paths that satisfy keep, in input order
RECURSIVE PathsWhere(_, _)
PathsWhere(paths, keep) ==
    IF paths = <<>> THEN <<>>
    ELSE (IF Head(paths) \in keep THEN <<Head(paths)>> ELSE <<>>)
         \o PathsWhere(Tail(paths), keep)

FirstOf(s, n) == SubSeq(s, 1, Min(n, Len(s)))

SeedreamDone == sd_out.status # "pending"

\* C13: a reference that is missing or unreadable never fails the request,
\* and only that reference is dropped: the request carries the other valid
\* (existing and readable) references, up to the service maximum.
C13_OnlyBadReferenceDropped ==
    SeedreamDone
        => /\ sd_out.posts = 1
           /\ sd_in.request = "ok" => sd_out.status = "returned"
           /\ sd_out.image.refs =
                  FirstOf(PathsWhere(sd_in.paths, sd_in.files \ sd_in.unreadable),
                          MaxReferences)

\* C14: generate_image never attaches more than 10 references and always
\* sends the request; the payload has no image field with no reference
\* attached, a single value with one, an array with several; and when the
\* first 10 existing references all load, exactly these are attached, in
\* input order.
C14_AtMostTenReferences ==
    SeedreamDone
        => LET existing == PathsWhere(sd_in.paths, sd_in.files)
               kept == FirstOf(existing, 10)
               attached == sd_out.image.refs
           IN /\ Len(attached) <= 10
              /\ sd_out.posts = 1
              /\ sd_out.status = (IF sd_in.request = "ok" THEN "returned"
                                  ELSE "RequestException")
              /\ sd_out.image.shape =
                     (IF Len(attached) = 0 THEN "absent"
                      ELSE IF Len(attached) = 1 THEN "single" ELSE "array")
              /\ Range(kept) \cap sd_in.unreadable = {} => attached = kept

\* C14 witness: eleven existing, readable references were supplied and the
\* request went out with the first ten.
C14_Witness ==
    /\ SeedreamDone
    /\ Len(sd_in.paths) = 11
    /\ Range(sd_in.paths) = sd_in.files
    /\ sd_in.unreadable = {}
    /\ sd_out.status = "returned"
    /\ sd_out.image = [shape |-> "array", refs |-> SubSeq(sd_in.paths, 1, 10)]

(***************************************************************************)
(* Properties of the director's use of its services (Spec).                *)
(***************************************************************************)
\* the calls made to a service for a character role or for a line
CallsTo(service, site, at) ==
    {i \in 1..Len(calls) :
        calls[i].service = service /\ calls[i].site = site /\ calls[i].at = at}

\* C15: the image service is requested at most once per character role and
\* per lyric line, the language service at most once per role and per line
\* (and each download is attempted at most once); a call that fails is the
\* last call of the run, and the run has raised.
C15_NoRetry ==
    /\ \A service \in {"claude", "seedream", "download"} :
       \A site \in {"character", "line"} :
       \A at \in 1..MaxLines :
           Cardinality(CallsTo(service, site, at)) <= 1
    /\ \A i \in 1..Len(calls) :
           calls[i].outcome # "ok" => (i = Len(calls) /\ pc = "raised")

\* C15 witness: the image service has rejected the request of the male
\* portrait, and the run has ended after that one request.
C15_Witness ==
    /\ pc = "raised"
    /\ fault = [site |-> "seedream_character", at |-> 1, kind |-> "request_error"]
    /\ Cardinality(CallsTo("seedream", "character", 1)) = 1
    /\ calls[Len(calls)].service = "seedream"
    /\ calls[Len(calls)].outcome = SeedreamException("request_error")

(***************************************************************************)
(* Further properties of create_style_guide (SpecStyle).                   *)
(***************************************************************************)
StyleDone == st_out.status # "pending"

\* the caller has set the conversation-flag override
ConversationOverridden ==
    st_in.custom_input.present /\ st_in.custom_input.is_conversation # "None"

\* C16: when the caller sets the conversation-flag override, the StyleGuide
\* that create_style_guide returns has is_conversation equal to the override,
\* with or without a custom story description.
C16_OverridePreemptsDetection ==
    (st_out.status = "returned" /\ ConversationOverridden)
        => st_out.style_guide.is_conversation = st_in.custom_input.is_conversation

\* the fields a style-guide answer is expected to carry
StyleGuideFields == {"visual_style", "segment_story", "is_conversation"}

\* C17: on the auto-generation path, an answer of the language service that
\* does not carry all three fields makes create_style_guide raise.
C17_IncompleteAnswerRaises ==
    (/\ StyleDone
     /\ ~UsesCustomStory(st_in.custom_input)
     /\ st_in.answer.keys # StyleGuideFields)
        => st_out.status \notin {"returned", "pending"}

(***************************************************************************)
(* Properties of the next-prompt decision, of the order of character       *)
(* design and of the references of the line images (Spec).                 *)
(***************************************************************************)
\* the language service's answer for the k-th line of the range (k >= 2)
\* carries the prompt but omits the rationale or the reference-usage flag
NextPromptOmitsField(k) ==
    /\ fault.site = "claude_line"
    /\ fault.at = k
    /\ fault.kind \in {"no_reasoning", "no_reference_flag"}
    /\ k >= 2
    /\ k <= Len(target_lyrics)

\* the portraits character design returns, in its order
CharacterPortraits == <<CharacterFile("male"), CharacterFile("female")>>

\* C18: when the next-prompt answer of line k omits the rationale or the
\* reference-usage flag, the run does not fail: line k's image is requested,
\* with no previously generated line image among its references.
C18_MissingFieldTolerated ==
    \A k \in 2..MaxLines :
        (Finished /\ NextPromptOmitsField(k))
            => /\ pc = "returned"
               /\ \E i \in CallsTo("seedream", "line", k) :
                      Range(calls[i].refs) \subseteq Range(CharacterPortraits)

\* the prompt of a role: its custom description if there is one, else the
\* language service's design prompt
ExpectedCharacterPrompt(r) ==
    IF custom_input.present /\ RoleDescription(custom_input, r) \notin {"None", ""}
    THEN RoleDescription(custom_input, r)
    ELSE AutoCharacterPrompt(r)

HasCustomDescription(r) ==
    custom_input.present /\ RoleDescription(custom_input, r) \notin {"None", ""}

\* C19: character design handles the male role first and the female role
\* second; a role with a custom description sends that text as the image
\* prompt and calls the language service zero times, a role without one
\* calls it once; every character image request carries no reference; the
\* prompts and paths are listed male first.
C19_RolesInOrder ==
    LET gender == <<"male", "female">>
    IN /\ Len(character_prompts) <= 2
       /\ \A r \in 1..Len(character_prompts) :
              /\ character_prompts[r] = ExpectedCharacterPrompt(gender[r])
              /\ Cardinality(CallsTo("claude", "character", r))
                     = (IF HasCustomDescription(gender[r]) THEN 0 ELSE 1)
       /\ \A i \in 1..Len(calls) :
              (calls[i].service = "seedream" /\ calls[i].site = "character")
                  => /\ calls[i].refs = <<>>
                     /\ calls[i].args = <<ExpectedCharacterPrompt(gender[calls[i].at])>>
       /\ \A i \in 1..Len(calls), j \in 1..Len(calls) :
              (i < j /\ calls[i].site = "character" /\ calls[j].site = "character")
                  => calls[i].at <= calls[j].at
       /\ character_refs = SubSeq(CharacterPortraits, 1, Len(character_refs))
       /\ CharacterDesignsReturned
              => (character_refs = CharacterPortraits /\ Len(character_prompts) = 2)

\* C19 witness: character design has returned for a custom male description
\* and no female description: one language-service call, for the female role.
C19_Witness ==
    /\ pc = "loop"
    /\ custom_input.character_male_description = "a tall man"
    /\ custom_input.character_female_description = "None"
    /\ character_prompts = <<"a tall man", AutoCharacterPrompt("female")>>
    /\ CallsTo("claude", "character", 1) = {}
    /\ Cardinality(CallsTo("claude", "character", 2)) = 1

\* C20: in a run whose external calls all succeed, every lyric line's image
\* request is issued with exactly the two portraits of character design,
\* male then female.
C20_SameReferencesEveryLine ==
    (Finished /\ EveryExternalCallSucceeds)
        => \A k \in 1..Len(target_lyrics) :
               /\ CallsTo("seedream", "line", k) # {}
               /\ \A i \in CallsTo("seedream", "line", k) :
                      calls[i].refs = CharacterPortraits

(***************************************************************************)
(* Properties of the logger, of the frames on disk and of the order of     *)
(* the steps of generate_all_images (Spec).                                *)
(***************************************************************************)
\* C21: the logger does not decide the outcome of generate_all_images: a run
\* over an empty range in which no service call fails returns the empty list,
\* as it would if every logger call did nothing.
C21_LoggerHasNoInfluence ==
    (Finished /\ Len(target_lyrics) = 0 /\ EveryExternalCallSucceeds)
        => (pc = "returned" /\ result = <<>> /\ exception = "")

\* the frame of the line at position j of the range
FrameOfPosition(j) == LineFile(target_lyrics[j].line_number)

\* C22: no step of the director removes a frame from disk; and when the run
\* has aborted on the line at position k, the frame of every earlier line
\* and both portraits are on disk, and no frame of a later line is.
C22_FramesLeftOnDisk ==
    /\ [][disk \subseteq disk']_vars
    /\ [](\A k \in 1..MaxLines :
             (pc = "raised" /\ LinesStarted = k)
                 => /\ Range(CharacterPortraits) \subseteq disk
                    /\ \A j \in 1..(k - 1) : FrameOfPosition(j) \in disk
                    /\ \A j \in (k + 1)..Len(target_lyrics) :
                           FrameOfPosition(j) \notin disk)

\* C22 witness: a run over two lines or more has aborted on its first line;
\* the two portraits are on disk and nothing else is.
C22_Witness ==
    /\ pc = "raised"
    /\ LinesStarted = 1
    /\ Len(target_lyrics) >= 2
    /\ disk = Range(CharacterPortraits)

\* the entries logged for the line whose start marker is entry i: those up
\* to the next start marker or the summary
EntriesOfLineFrom(i) ==
    {j \in (i + 1)..Len(log) :
        \A m \in (i + 1)..j : log[m].kind \notin {"line_start", "summary"}}

\* C24: once a line's processing has ended (the run has moved on or has
\* aborted), the log holds exactly one generation-result entry for it.
C24_OneResultPerStartedLine ==
    (pc \in {"loop", "returned", "raised"})
        => \A i \in 1..Len(log) :
               log[i].kind = "line_start"
                   => Cardinality({j \in EntriesOfLineFrom(i) :
                                      log[j].kind = "result"}) = 1

\* the prompts of the first n lines of the range
PromptsOfFirst(n) == [m \in 1..n |-> ScenePrompt(target_lyrics[m].line_number)]

\* an earlier successful call than call j
DoneBefore(service, site, at, j) ==
    \E i \in CallsTo(service, site, at) : i < j /\ calls[i].outcome = "ok"

\* C25: every request for a lyric line comes after both portraits were
\* downloaded; within a line the prompt is obtained before the image is
\* requested and the image before it is downloaded; the prompt request of
\* the line at position k comes after the download of line k - 1 and is
\* given no prompt other than those of lines 1 .. k - 1, in order.
C25_StrictlySequential ==
    \A j \in 1..Len(calls) :
        calls[j].site = "line"
            => LET k == calls[j].at
               IN /\ \A r \in 1..2 : DoneBefore("download", "character", r, j)
                  /\ \A i \in (j + 1)..Len(calls) : calls[i].site = "line"
                  /\ calls[j].service = "seedream" => DoneBefore("claude", "line", k, j)
                  /\ calls[j].service = "download" => DoneBefore("seedream", "line", k, j)
                  /\ calls[j].service = "claude"
                         => /\ k > 1 => DoneBefore("download", "line", k - 1, j)
                            /\ Len(generated_images) >= k - 1
                            /\ calls[j].history = PromptsOfFirst(k - 1)

\* C25 witness: the prompt of the first line was requested as the seventh
\* call of the run, after the six calls of character design.
C25_Witness ==
    /\ Len(calls) = 7
    /\ calls[7].service = "claude" /\ calls[7].site = "line" /\ calls[7].at = 1
    /\ \A i \in 1..6 : calls[i].site = "character" /\ calls[i].outcome = "ok"

\* C29: at the start of every loop iteration and at return, the prompt
\* history and the list of records have the same length, the number of
\* lines completed, and the i-th history entry is the prompt of the i-th
\* record.
C29_HistoryMatchesRecords ==
    (pc \in {"loop", "returned"})
        => /\ Len(previous_prompts) = Len(generated_images)
           /\ Len(previous_prompts) = idx
           /\ \A i \in 1..Len(previous_prompts) :
                  previous_prompts[i] = generated_images[i].prompt_used

\* C29 witness: the loop over a non-empty range is about to start its first
\* iteration, with both lists empty.
C29_Witness ==
    /\ pc = "loop"
    /\ idx = 0
    /\ Len(target_lyrics) >= 1
    /\ previous_prompts = <<>>
    /\ generated_images = <<>>

(***************************************************************************)
(* Further properties of select_references (SpecSelect) and of             *)
(* _extract_json (SpecExtract).                                            *)
(***************************************************************************)
\* the chosen indices that lie inside a history of h images, in the order chosen
ChosenInRange(chosen, h) == SelectSeq(chosen, LAMBDA i : 0 <= i /\ i < h)

\* C26: whatever indices the language service chooses, select_references
\* returns without error, and the paths returned are the prior image paths
\* at the chosen indices that lie in [0, history length), in the order
\* chosen; with an empty history it returns empty paths and indices and
\* makes no call to the language service.
C26_OutOfRangeDiscarded ==
    LET h == Len(sel_in.previous_paths)
        kept == ChosenInRange(sel_in.answer.selected_indices, h)
    IN /\ (sel_out.status # "pending" /\ h = 0)
              => sel_out = [status |-> "returned", paths |-> <<>>,
                            indices |-> <<>>, claude_calls |-> 0]
       /\ (sel_out.status # "pending" /\ h > 0 /\ sel_in.answer.kind = "object")
              => /\ sel_out.status = "returned"
                 /\ sel_out.claude_calls = 1
                 /\ sel_out.paths = [k \in 1..Len(kept) |-> HistoryPath(kept[k])]

\* C26 witness: with two prior images, the answer 2, 1, -1, 0 has been
\* mapped to the paths of images 1 and 0.
C26_Witness ==
    /\ sel_out.status = "returned"
    /\ Len(sel_in.previous_paths) = 2
    /\ sel_in.answer.selected_indices = <<2, 1, -1, 0>>
    /\ sel_out.paths = <<HistoryPath(1), HistoryPath(0)>>

\* C30: whenever _extract_json returns, the value returned is a JSON object.
C30_ReturnsOnlyObjects ==
    ex_out.status = "returned"
        => (Len(ex_out.value) > 0 /\ ex_out.value[1] = "{")

(***************************************************************************)
(* Properties of the audio download (SpecAudio).                           *)
(***************************************************************************)
\* the candidate URLs whose GET succeeds
AudioUrlsOk == {u \in 1..NumAudioUrls : au_in.responses[u] = "ok"}

\* C27: the candidate URLs are tried in their fixed order, each at most once
\* and only after all earlier ones failed; the file is written at most once,
\* from the first URL that succeeds, where the download stops; the download
\* raises only when every candidate failed, and has then written nothing;
\* and nothing is tried or written when the file exists already.
C27_FirstWorkingUrlWins ==
    /\ au_st.tried = [i \in 1..Len(au_st.tried) |-> i]
    /\ \A i \in 1..(Len(au_st.tried) - 1) : au_in.responses[i] # "ok"
    /\ Len(au_st.writes) <= 1
    /\ \A i \in 1..Len(au_st.writes) :
           /\ au_st.writes[i] \in AudioUrlsOk
           /\ \A u \in AudioUrlsOk : au_st.writes[i] <= u
           /\ au_st.tried[Len(au_st.tried)] = au_st.writes[i]
    /\ au_st.pc = "returned" /\ ~au_in.exists => Len(au_st.writes) = 1
    /\ au_st.pc = "raised"
           => /\ AudioUrlsOk = {}
              /\ Len(au_st.tried) = NumAudioUrls
              /\ au_st.writes = <<>>
              /\ au_st.file = "absent"
    /\ au_in.exists => (au_st.tried = <<>> /\ au_st.writes = <<>>)

\* C27 witness: the first URL failed, the second and the third work: the
\* file was written from the second and the third was never tried.
C27_Witness ==
    /\ au_st.pc = "returned"
    /\ au_in.responses = <<"http_error", "ok", "ok">>
    /\ au_st.tried = <<1, 2>>
    /\ au_st.writes = <<2>>

(***************************************************************************)
(* Properties of generate_lyric_video (SpecVideo) and of process_all_songs *)
(* (SpecBatch).                                                            *)
(***************************************************************************)
\* the range is not empty and no collaborator fails before image generation
VideoCanBeMade == vd_in.lines >= 1 /\ vd_in.services = "ok"

\* C23: when nothing fails before the upload step, generate_lyric_video
\* returns the video path whatever the drive does; the local file is deleted
\* only if both flags are set and the upload succeeded; it is kept when the
\* upload fails; and with upload_to_drive false nothing is uploaded or
\* deleted.
C23_DeleteOnlyAfterUpload ==
    (vd_out.status # "pending" /\ VideoCanBeMade)
        => /\ vd_out.status = "returned"
           /\ vd_out.deleted
                  => (vd_in.upload_to_drive /\ vd_in.delete_after_upload
                      /\ vd_out.uploaded)
           /\ (vd_in.upload_to_drive /\ ~vd_out.uploaded) => vd_out.video = "present"
           /\ ~vd_in.upload_to_drive => (vd_out.uploads = 0 /\ ~vd_out.deleted)

\* C28: the batch never ends by an exception; the songs are attempted once
\* each, in order; every attempted song is in exactly one of the two lists;
\* and at the end the two lists together hold every song.
C28_BatchSurvivesFailures ==
    /\ ba_st.pc # "raised"
    /\ ba_st.attempts = [i \in 1..Len(ba_st.attempts) |-> i]
    /\ Range(ba_st.successful) \cap Range(ba_st.failed) = {}
    /\ Range(ba_st.successful) \cup Range(ba_st.failed) = Range(ba_st.attempts)
    /\ Len(ba_st.successful) + Len(ba_st.failed) = Len(ba_st.attempts)
    /\ ba_st.pc = "returned"
           => Len(ba_st.successful) + Len(ba_st.failed) = Len(ba_in)

\* C28 witness: a batch of three songs has ended; the first song failed and
\* the two after it were attempted all the same.
C28_Witness ==
    /\ ba_st.pc = "returned"
    /\ Len(ba_in) = 3
    /\ ba_st.attempts = <<1, 2, 3>>
    /\ ba_st.failed[1] = 1

====
